---- MODULE Spec2Model ----
(***************************************************************************)
(* Model of the Brent oil dashboard backend (src/dashboard/backend/app.py) *)
(* and of the event file written by src/setup_dashboard.py.                *)
(*                                                                         *)
(* Representation of Python/pandas values:                                 *)
(*   - a date text 'YYYY-MM-DD' is the record [y, m, d];                   *)
(*   - a pandas Timestamp at midnight is [ts |-> days since 1970-01-01];   *)
(*   - a float is a reduced fraction [num, den] with den > 0, or NaN,      *)
(*     PosInf, NegInf; Python None is None;                                *)
(*   - ln(a/b) is kept as the term [ln_num, ln_den] (reduced), a standard  *)
(*     deviation as the term [std_of |-> <<values>>]: these are irrational *)
(*     and only their identity and definedness matter here.                *)
(***************************************************************************)
EXTENDS Integers, Sequences, FiniteSets, TLC

\* ------------------------------------------------------------------ bounds

\* largest number of rows of a generated price file
MaxRows == 32
\* largest explicit limit passed to get_price_data
MaxLimit == 4
\* number of calendar days covered by the dense price file (RowsPerDay rows each)
DenseDays == 36
\* rows per calendar day of the dense price file
RowsPerDay == 3
\* largest number of rows of the price files with a zero or negative price
MaxSmallRows == 6

\* ------------------------------------------------------- program constants

\* rolling(window=30)
RollingWindow == 30
\* window = 30 in get_event_impact
ImpactWindow == 30
\* event_data.head(100)
PreviewRows == 100
\* limit=5000 default of get_price_data and of the /api/prices route
DefaultLimit == 5000

\* --------------------------------------------------------- python values

None == [k |-> "None"]
NaN == [k |-> "nan"]
PosInf == [k |-> "inf"]
NegInf == [k |-> "-inf"]

Abs(n) == IF n < 0 THEN -n ELSE n

RECURSIVE Gcd(_, _)
Gcd(a, b) == IF b = 0 THEN a ELSE Gcd(b, a % b)

\* the float n/d (d # 0) as a reduced fraction with a positive denominator
Frac(n, d) ==
  LET g == Gcd(Abs(n), Abs(d))
      s == IF d < 0 THEN -1 ELSE 1
  IN [num |-> s * (n \div g), den |-> s * (d \div g)]

IsFrac(x) == DOMAIN x = {"num", "den"}

\* a / b on floats that are fractions, b nonzero
FracDiv(a, b) == Frac(a.num * b.den, a.den * b.num)
FracSub(a, b) == Frac(a.num * b.den - b.num * a.den, a.den * b.den)
FracMulInt(a, n) == Frac(a.num * n, a.den)

\* the sum of s[lo..hi]
RECURSIVE SumRange(_, _, _)
SumRange(s, lo, hi) ==
  IF lo > hi THEN 0
  ELSE IF lo = hi THEN s[lo]
  ELSE LET mid == (lo + hi) \div 2
       IN SumRange(s, lo, mid) + SumRange(s, mid + 1, hi)

SumSeq(s) == SumRange(s, 1, Len(s))

\* the rows of s at the positions of I within lo..hi, in their order in s
RECURSIVE RowsAt(_, _, _, _)
RowsAt(s, lo, hi, I) ==
  IF lo > hi THEN <<>>
  ELSE IF lo = hi THEN (IF lo \in I THEN <<s[lo]>> ELSE <<>>)
  ELSE LET mid == (lo + hi) \div 2
       IN RowsAt(s, lo, mid, I) \o RowsAt(s, mid + 1, hi, I)

\* boolean-mask indexing df[mask]
Masked(s, I) == RowsAt(s, 1, Len(s), I)

\* ------------------------------------------------------------------ dates

\* pd.to_datetime / pd.Timestamp on 'YYYY-MM-DD': days since 1970-01-01
DaysFromCivil(y, m, d) ==
  LET yy == IF m <= 2 THEN y - 1 ELSE y
      era == yy \div 400
      yoe == yy - era * 400
      mp == (m + 9) % 12
      doy == (153 * mp + 2) \div 5 + d - 1
      doe == yoe * 365 + yoe \div 4 - yoe \div 100 + doy
  IN era * 146097 + doe - 719468

ParseDate(text) == [ts |-> DaysFromCivil(text.y, text.m, text.d)]

\* strftime('%Y-%m-%d') and the date cell written by to_csv
FormatDate(t) ==
  LET z == t.ts + 719468
      era == z \div 146097
      doe == z - era * 146097
      yoe == (doe - doe \div 1460 + doe \div 36524 - doe \div 146096) \div 365
      doy == doe - (365 * yoe + yoe \div 4 - yoe \div 100)
      mp == (5 * doy + 2) \div 153
      d == doy - (153 * mp + 2) \div 5 + 1
      m == IF mp < 10 THEN mp + 3 ELSE mp - 9
      y == yoe + era * 400 + (IF m <= 2 THEN 1 ELSE 0)
  IN [y |-> y, m |-> m, d |-> d]

IsTimestamp(x) == DOMAIN x = {"ts"}

\* ------------------------------------------------------------- csv cells

Digits == <<"0", "1", "2", "3", "4", "5", "6", "7", "8", "9">>

IsDigit(c) == \E i \in 1..10 : Digits[i] = c

DigitValue(c) == (CHOOSE i \in 1..10 : Digits[i] = c) - 1

\* the decimal text of n >= 0, as to_csv writes an integer cell
RECURSIVE IntToText(_)
IntToText(n) ==
  IF n < 10 THEN <<Digits[n + 1]>>
  ELSE IntToText(n \div 10) \o <<Digits[(n % 10) + 1]>>

IsIntText(t) == Len(t) > 0 /\ \A i \in 1..Len(t) : IsDigit(t[i])

\* int(text) and read_csv's integer column inference
RECURSIVE TextToInt(_)
TextToInt(t) ==
  IF Len(t) = 1 THEN DigitValue(t[1])
  ELSE 10 * TextToInt(SubSeq(t, 1, Len(t) - 1)) + DigitValue(t[Len(t)])

\* ----------------------------------------------------------------- events

Ev(i, y, m, d, name, type, region, severity) ==
  [id |-> i, date |-> [y |-> y, m |-> m, d |-> d], name |-> name,
   type |-> type, region |-> region, severity |-> severity]

\* the literal list of load_or_create_events (and of setup_dashboard.py)
SeedEvents ==
  << Ev(1, 1990, 8, 2, "Iraq invades Kuwait", "Geopolitical", "Middle East", "High"),
     Ev(2, 1997, 11, 30, "Asian Financial Crisis", "Financial", "Asia", "Medium"),
     Ev(3, 2001, 9, 11, "9/11 Attacks", "Geopolitical", "Global", "High"),
     Ev(4, 2003, 3, 20, "Iraq War begins", "Geopolitical", "Middle East", "High"),
     Ev(5, 2005, 8, 29, "Hurricane Katrina", "Natural Disaster", "North America", "High"),
     Ev(6, 2008, 9, 15, "Lehman Brothers Collapse", "Financial", "Global", "High"),
     Ev(7, 2011, 2, 15, "Arab Spring", "Geopolitical", "Middle East", "Medium"),
     Ev(8, 2014, 6, 1, "Oil Price Crash", "Market", "Global", "High"),
     Ev(9, 2015, 12, 4, "OPEC maintains production", "Policy", "Global", "Medium"),
     Ev(10, 2016, 11, 30, "OPEC production cuts", "Policy", "Global", "High"),
     Ev(11, 2020, 3, 1, "COVID-19 Pandemic", "Health", "Global", "High"),
     Ev(12, 2022, 2, 24, "Russia-Ukraine War", "Geopolitical", "Europe", "High") >>

\* self.events_data['date'] = pd.to_datetime(self.events_data['date'])
ToDatetimeColumn(table) ==
  [i \in 1..Len(table) |-> [table[i] EXCEPT !.date = ParseDate(table[i].date)]]

\* one date cell as to_csv writes it: a Timestamp is formatted, a text is copied
DateCell(v) == IF IsTimestamp(v) THEN FormatDate(v) ELSE v

\* DataFrame.to_csv(events_path, index=False): every cell becomes text
EventsToCsv(table) ==
  [i \in 1..Len(table) |->
     [table[i] EXCEPT !.id = IntToText(table[i].id),
                      !.date = DateCell(table[i].date)]]

\* pd.read_csv(events_path): the id column is inferred as integers, every
\* other column, the date included, stays text (no parse_dates, no to_datetime)
ReadEventsCsv(cells) ==
  [i \in 1..Len(cells) |-> [cells[i] EXCEPT !.id = TextToInt(cells[i].id)]]

\* the file setup_dashboard.py writes: pd.DataFrame(events).to_csv(...)
SetupEventsFile == EventsToCsv(SeedEvents)

\* ------------------------------------------------------------ price table

\* self.price_data['date'] = pd.to_datetime(self.price_data['date'])
LoadPrices(rows) ==
  [i \in 1..Len(rows) |-> [date |-> ParseDate(rows[i].date), price |-> rows[i].price]]

\* sort_values('date'): ascending by date.  Rows of equal date keep their file
\* order here; the generated files give rows of one date one price, so the
\* order pandas leaves among them does not change the table.
\* the permutation that sorts keys ascending, equal keys in their given order:
\* the result's k-th entry is the position in keys of the k-th smallest
ArgSort(keys) ==
  LET n == Len(keys)
      rank == [i \in 1..n |->
                 Cardinality({j \in 1..n : keys[j] < keys[i] \/ (keys[j] = keys[i] /\ j < i)}) + 1]
  IN [k \in 1..n |-> CHOOSE i \in 1..n : rank[i] = k]

SortValuesByDate(rows) ==
  LET order == ArgSort([i \in 1..Len(rows) |-> rows[i].date.ts])
  IN [k \in 1..Len(rows) |-> rows[order[k]]]

\* Series.pct_change(): p[t] / p[t-1] - 1, NaN on the first row; a division
\* by zero gives an infinity (or NaN for 0/0), it does not raise
PctChange(prices, i) ==
  IF i = 1 THEN NaN
  ELSE IF prices[i - 1] = 0
       THEN (IF prices[i] > 0 THEN PosInf ELSE IF prices[i] < 0 THEN NegInf ELSE NaN)
  ELSE Frac(prices[i] - prices[i - 1], prices[i - 1])

\* np.log(p): ln(p) for p > 0, -inf for 0, NaN for p < 0 (a warning, no raise)
NpLog(p) ==
  IF p > 0 THEN [ln_num |-> p, ln_den |-> 1] ELSE IF p = 0 THEN NegInf ELSE NaN

\* Series.diff() of the logarithms, IEEE-754: NaN on the first row and when an
\* operand is NaN or both are -inf; ln(a) - ln(b) is the term ln(a/b)
LogDiff(prices, i) ==
  IF i = 1 THEN NaN
  ELSE LET a == NpLog(prices[i])
           b == NpLog(prices[i - 1])
       IN IF a = NaN \/ b = NaN THEN NaN
          ELSE IF a = NegInf /\ b = NegInf THEN NaN
          ELSE IF a = NegInf THEN NegInf
          ELSE IF b = NegInf THEN PosInf
          ELSE LET q == Frac(a.ln_num * b.ln_den, a.ln_den * b.ln_num)
               IN [ln_num |-> q.num, ln_den |-> q.den]

IsFiniteLog(x) == DOMAIN x = {"ln_num", "ln_den"}

\* variant: the rolling mean taken after the first row is dropped, so that it
\* needs one more input row
RollingMeanAfterDrop(prices, i) ==
  IF i < RollingWindow + 1 THEN NaN
  ELSE Frac(SumSeq(SubSeq(prices, i - RollingWindow + 1, i)), RollingWindow)

\* rolling(window=30).mean() of the price column (min_periods = window)
RollingMean(prices, i) ==
  IF i < RollingWindow THEN NaN
  ELSE Frac(SumSeq(SubSeq(prices, i - RollingWindow + 1, i)), RollingWindow)

\* rolling(window=30).std() * np.sqrt(252) of log_return: NaN unless the
\* window holds 30 finite observations (rolling treats an infinity as NaN)
RollingVolatility(logret, i) ==
  IF i < RollingWindow THEN NaN
  ELSE LET w == SubSeq(logret, i - RollingWindow + 1, i)
       IN IF \A j \in 1..Len(w) : IsFiniteLog(w[j])
          THEN [std_of |-> w, times_sqrt |-> 252]
          ELSE NaN

\* variant: dropna() over every column
DropnaAnyColumn(table) ==
  {i \in 1..Len(table) :
     /\ table[i].daily_return # NaN
     /\ table[i].log_return # NaN
     /\ table[i].rolling_mean_30d # NaN
     /\ table[i].rolling_volatility_30d # NaN}

\* variant: no row is dropped
DropnaNothing(table) == 1..Len(table)

\* dropna(subset=['log_return']): the positions kept
DropnaLogReturn(table) == {i \in 1..Len(table) : table[i].log_return # NaN}

\* OilDataAPI.calculate_metrics
CalculateMetrics(loaded) ==
  LET sorted == SortValuesByDate(loaded)
      prices == [i \in 1..Len(sorted) |-> sorted[i].price]
      logret == [i \in 1..Len(sorted) |-> LogDiff(prices, i)]
      full == [i \in 1..Len(sorted) |->
                 [date |-> sorted[i].date,
                  price |-> sorted[i].price,
                  daily_return |-> PctChange(prices, i),
                  log_return |-> logret[i],
                  rolling_mean_30d |-> RollingMean(prices, i),
                  rolling_volatility_30d |-> RollingVolatility(logret, i)]]
  IN Masked(full, DropnaLogReturn(full))

\* ---------------------------------------------------------------- queries

\* what a call gives back: a value, or an exception leaving the method
Returned(v) == [status |-> "ok", value |-> v]
Raised(e) == [status |-> "raise", value |-> e]

\* a text argument other than a date: the Python str s
Text(s) == [text |-> s]

\* Python truthiness of an optional text argument (`if start_date:`)
Given(arg) == arg # None

\* Series >= / <= pd.Timestamp(text) on a date column: comparing a text cell
\* with a Timestamp raises TypeError
ComparableDates(table) == \A i \in 1..Len(table) : IsTimestamp(table[i].date)

FromDate(table, text) ==
  Masked(table, {i \in 1..Len(table) : table[i].date.ts >= ParseDate(text).ts})

UntilDate(table, text) ==
  Masked(table, {i \in 1..Len(table) : table[i].date.ts <= ParseDate(text).ts})

\* variant: the stride counted from the step-th row
StrideFromStep(table, step) ==
  Masked(table, {i \in 1..Len(table) : i % step = 0})

\* df.iloc[::step]: positions 0, step, 2*step, ... (here 1, 1+step, ...)
Stride(table, step) ==
  Masked(table, {i \in 1..Len(table) : (i - 1) % step = 0})

\* OilDataAPI.get_price_data
GetPriceData(table, start_date, end_date, limit) ==
  LET a == IF Given(start_date) THEN FromDate(table, start_date) ELSE table
      b == IF Given(end_date) THEN UntilDate(a, end_date) ELSE a
  IN IF Len(b) > limit
     THEN (IF limit = 0 THEN Raised("ZeroDivisionError")
           ELSE Returned(Stride(b, Len(b) \div limit)))
     ELSE Returned(b)

\* OilDataAPI.get_events
GetEvents(events, event_type, start_date, end_date) ==
  LET a == IF Given(event_type) /\ event_type.text # "all"
           THEN Masked(events, {i \in 1..Len(events) : events[i].type = event_type.text})
           ELSE events
  IN IF Given(start_date) /\ ~ComparableDates(a) THEN Raised("TypeError")
     ELSE LET b == IF Given(start_date) THEN FromDate(a, start_date) ELSE a
          IN IF Given(end_date) /\ ~ComparableDates(b) THEN Raised("TypeError")
             ELSE Returned(IF Given(end_date) THEN UntilDate(b, end_date) ELSE b)

\* OilDataAPI.get_change_points
GetChangePoints(payload) == Returned(payload)

\* Series.mean() of a non-empty integer column
Mean(values) == Frac(SumSeq(values), Len(values))

PriceColumn(table) == [i \in 1..Len(table) |-> table[i].price]

\* Python truthiness of `float or None`: None and 0.0 are false
Truthy(x) == x # None /\ ~(IsFrac(x) /\ x.num = 0)

\* (price_after - price_before) / price_before * 100
PriceChangePct(price_before, price_after) ==
  FracMulInt(FracDiv(FracSub(price_after, price_before), price_before), 100)

\* DataFrame.head(n)
HeadRows(table, n) == SubSeq(table, 1, IF Len(table) < n THEN Len(table) ELSE n)

\* variant: the rows of the event's own date counted as before it
OnOrBeforeEvent(event_data) ==
  Masked(event_data, {i \in 1..Len(event_data) : event_data[i].days_from_event <= 0})

\* event_data[event_data['days_from_event'] < 0]
BeforeEvent(event_data) ==
  Masked(event_data, {i \in 1..Len(event_data) : event_data[i].days_from_event < 0})

\* event_data[event_data['days_from_event'] > 0]
AfterEvent(event_data) ==
  Masked(event_data, {i \in 1..Len(event_data) : event_data[i].days_from_event > 0})

\* OilDataAPI.get_event_impact; event_id is the text of the URL segment
GetEventImpact(prices, events, event_id) ==
  IF ~IsIntText(event_id) THEN Raised("ValueError")
  ELSE
    LET found == Masked(events, {i \in 1..Len(events) : events[i].id = TextToInt(event_id)})
    IN IF Len(found) = 0 THEN Returned(None)
       ELSE
         LET event == found[1]
             event_date == event.date
         IN IF ~IsTimestamp(event_date) THEN Raised("TypeError")
            ELSE
              LET start_date == event_date.ts - ImpactWindow
                  end_date == event_date.ts + ImpactWindow
                  mask == {i \in 1..Len(prices) :
                             prices[i].date.ts >= start_date /\ prices[i].date.ts <= end_date}
                  window == Masked(prices, mask)
                  event_data ==
                    [i \in 1..Len(window) |->
                       [date |-> window[i].date,
                        price |-> window[i].price,
                        daily_return |-> window[i].daily_return,
                        log_return |-> window[i].log_return,
                        rolling_mean_30d |-> window[i].rolling_mean_30d,
                        rolling_volatility_30d |-> window[i].rolling_volatility_30d,
                        days_from_event |-> window[i].date.ts - event_date.ts]]
                  before_event == BeforeEvent(event_data)
                  after_event == AfterEvent(event_data)
                  price_before ==
                    IF Len(before_event) > 0 THEN Mean(PriceColumn(before_event)) ELSE None
                  price_after ==
                    IF Len(after_event) > 0 THEN Mean(PriceColumn(after_event)) ELSE None
              IN IF Len(event_data) = 0 THEN Returned(None)
                 ELSE Returned(
                   [event |-> event,
                    price_before |-> price_before,
                    price_after |-> price_after,
                    price_change_pct |->
                      IF Truthy(price_before) /\ Truthy(price_after)
                      THEN PriceChangePct(price_before, price_after)
                      ELSE None,
                    data_points |-> HeadRows(event_data, PreviewRows)])

\* Series.min() / Series.max() of a non-empty integer column
SeriesMin(values) == CHOOSE v \in {values[i] : i \in 1..Len(values)} :
                       \A i \in 1..Len(values) : v <= values[i]
SeriesMax(values) == CHOOSE v \in {values[i] : i \in 1..Len(values)} :
                       \A i \in 1..Len(values) : v >= values[i]

\* Series.median(): the middle of the sorted values, the mean of the two
\* middle ones for an even count
SeriesMedian(values) ==
  LET order == ArgSort(values)
      srt == [k \in 1..Len(values) |-> values[order[k]]]
      n == Len(srt)
  IN IF n % 2 = 1 THEN Frac(srt[(n + 1) \div 2], 1)
     ELSE Frac(srt[n \div 2] + srt[n \div 2 + 1], 2)

\* Series.std(): the sample standard deviation, NaN for fewer than 2 values
SeriesStd(values) == IF Len(values) < 2 THEN NaN ELSE [std_of |-> values, times_sqrt |-> 1]

\* Series.mean() of daily_return, NaN entries skipped
MeanDailyReturn(table) ==
  LET kept == Masked(table, {i \in 1..Len(table) : table[i].daily_return # NaN})
  IN IF Len(kept) = 0 THEN NaN
     ELSE [mean_of |-> [i \in 1..Len(kept) |-> kept[i].daily_return]]

\* OilDataAPI.get_summary_stats; on an empty table min() is NaT (strftime
\* raises ValueError) and iloc[-1] is out of bounds
GetSummaryStats(table) ==
  IF Len(table) = 0 THEN Raised("ValueError")
  ELSE
    LET prices == PriceColumn(table)
        days == [i \in 1..Len(table) |-> table[i].date.ts]
    IN Returned(
      [date_range |-> [start |-> FormatDate([ts |-> SeriesMin(days)]),
                       end |-> FormatDate([ts |-> SeriesMax(days)])],
       price_stats |-> [min |-> Frac(SeriesMin(prices), 1),
                        max |-> Frac(SeriesMax(prices), 1),
                        mean |-> Mean(prices),
                        median |-> SeriesMedian(prices),
                        std |-> SeriesStd(prices),
                        current |-> Frac(prices[Len(prices)], 1)],
       returns |-> [mean_daily_return |-> MeanDailyReturn(table),
                    volatility |-> table[Len(table)].rolling_volatility_30d]])

\* ------------------------------------------------------------ route layer

\* the Flask routes: /api/event-impact/<event_id> answers 404 for a falsy
\* result and 400 for any exception; the other routes have no handler, so an
\* exception becomes Flask's 500
ImpactRoute(call) ==
  IF call.status = "raise" THEN 400
  ELSE IF call.value = None THEN 404
  ELSE 200

PlainRoute(call) == IF call.status = "raise" THEN 500 ELSE 200

\* ------------------------------------------------------------------ files

Missing == [exists |-> FALSE, content |-> <<>>]
File(content) == [exists |-> TRUE, content |-> content]

\* the placeholder of load_change_points
MockChangePoints ==
  [change_point |-> [index |-> 5000,
                     date |-> [y |-> 2014, m |-> 6, d |-> 15],
                     description |-> "Oil price crash structural break"],
   impact |-> [price_before |-> Frac(10532, 100),
               price_after |-> Frac(4876, 100),
               price_change_pct |-> Frac(-537, 10)]]

\* OilDataAPI.load_change_points
LoadChangePoints(file) == IF file.exists THEN file.content ELSE MockChangePoints

\* ------------------------------------------------- generated input files

\* 2014-06-01, the date of seed event 8, around which the price files lie
AnchorDay == DaysFromCivil(2014, 6, 1)

\* the price of the i-th row in date order, of n rows
PatternPrice(pattern, i, n) ==
  CASE pattern = "ramp" -> 10 * i
    [] pattern = "saw" -> 7 + ((3 * i) % 5)
    [] pattern = "zlast" -> IF i = n THEN 0 ELSE 10 * i
    [] pattern = "neg2" -> IF i = 2 THEN -5 ELSE 10 * i

PriceRows(n, start, step, pattern) ==
  [i \in 1..n |-> [date |-> FormatDate([ts |-> start + (i - 1) * step]),
                   price |-> PatternPrice(pattern, i, n)]]

Reversed(rows) == [i \in 1..Len(rows) |-> rows[Len(rows) + 1 - i]]

\* several rows per calendar day, all rows of a day at one price
DensePriceRows ==
  [i \in 1..(DenseDays * RowsPerDay) |->
     LET k == (i - 1) \div RowsPerDay
     IN [date |-> FormatDate([ts |-> AnchorDay - (DenseDays \div 2) + k]),
         price |-> PatternPrice("saw", k + 1, DenseDays)]]

CustomChangePoints ==
  [change_point |-> [index |-> 6789,
                     date |-> [y |-> 2008, m |-> 9, d |-> 15],
                     description |-> "custom"],
   impact |-> [price_before |-> Frac(90, 1),
               price_after |-> Frac(45, 1),
               price_change_pct |-> Frac(-50, 1)]]

\* files of 0..MaxRows rows: daily in date order, daily in reverse date
\* order, and every second day
SweepScenarios ==
  { [src |-> "cleaned",
     rows |-> CASE layout = "daily" -> PriceRows(n, AnchorDay - 31, 1, "ramp")
                [] layout = "reversed" -> Reversed(PriceRows(n, AnchorDay - 31, 1, "saw"))
                [] layout = "sparse" -> PriceRows(n, AnchorDay - 31, 2, "saw"),
     cp |-> Missing] :
    n \in 0..MaxRows, layout \in {"daily", "reversed", "sparse"} }

\* short files around the anchor day, some with a zero or a negative price,
\* from either price source, with and without a change-point file
SmallScenarios ==
  { [src |-> IF raw THEN "raw" ELSE "cleaned",
     rows |-> PriceRows(n, AnchorDay - 4, 2, pattern),
     cp |-> IF raw THEN File(CustomChangePoints) ELSE Missing] :
    n \in 0..MaxSmallRows, pattern \in {"ramp", "zlast", "neg2"}, raw \in BOOLEAN }

OtherScenarios ==
  { [src |-> "cleaned", rows |-> DensePriceRows, cp |-> Missing],
    [src |-> "none", rows |-> <<>>, cp |-> Missing] }

Scenarios == SweepScenarios \cup SmallScenarios \cup OtherScenarios

\* -------------------------------------------------------------- the state

VARIABLES
  price_src,      \* which price file exists: "cleaned", "raw" or "none"
  price_file,     \* its rows, dates as text
  cp_file,        \* results/change_point_results.json
  events_file,    \* results/events.csv
  writable,       \* whether results/ can be created and written
  pc,             \* "down", "serving" (api constructed) or "failed" (load raised)
  price_data,     \* api.price_data
  events_data,    \* api.events_data
  change_points,  \* api.change_points
  synthesized,    \* history: the event table of the process that created events.csv
  loaded,         \* history: the tables as the load/derive pass of this process left them
  served,         \* history: outcome of the last response sent: "none", "ok" or "failed"
  result          \* the request being answered and its answer, NoResult if none

vars == <<price_src, price_file, cp_file, events_file, writable, pc,
          price_data, events_data, change_points, synthesized, loaded, served,
          result>>

files == <<price_src, price_file, cp_file, writable>>

NoResult == [op |-> "none", args |-> <<>>, call |-> Returned(None), http |-> 0]

\* no load/derive pass has completed
NotLoaded == [price_data |-> <<>>, events_data |-> <<>>, change_points |-> None]

\* the three objects OilDataAPI.__init__ leaves on the api
Tables(prices, events, payload) ==
  [price_data |-> prices, events_data |-> events, change_points |-> payload]

Init ==
  /\ \E sc \in Scenarios :
       /\ price_src = sc.src
       /\ price_file = sc.rows
       /\ cp_file = sc.cp
  /\ \E present \in BOOLEAN :
       /\ events_file = IF present THEN File(SetupEventsFile) ELSE Missing
       /\ writable \in (IF present THEN {TRUE} ELSE BOOLEAN)
  /\ pc = "down"
  /\ price_data = <<>>
  /\ events_data = <<>>
  /\ change_points = None
  /\ synthesized = <<>>
  /\ loaded = NotLoaded
  /\ served = "none"
  /\ result = NoResult

\* ------------------------------------------------------------ the actions

\* the table load_or_create_events builds when results/events.csv is missing
SynthesizeEvents == ToDatetimeColumn(SeedEvents)

\* process start, neither price file exists: pd.read_csv(raw_path) raises
\* in load_data and the module-level `api = OilDataAPI()` fails
StartNoPrices ==
  /\ pc = "down"
  /\ price_src = "none"
  /\ pc' = "failed"
  /\ UNCHANGED <<files, events_file, price_data, events_data, change_points,
                 synthesized, loaded, served, result>>

\* process start, results/events.csv exists: load_data reads the prices,
\* reads the event file, derives the metrics and loads the change points
StartReadEvents ==
  /\ pc = "down"
  /\ price_src # "none"
  /\ events_file.exists
  /\ events_data' = ReadEventsCsv(events_file.content)
  /\ price_data' = CalculateMetrics(LoadPrices(price_file))
  /\ change_points' = LoadChangePoints(cp_file)
  /\ loaded' = Tables(price_data', events_data', change_points')
  /\ pc' = "serving"
  /\ UNCHANGED <<files, events_file, synthesized, served, result>>

\* process start, no results/events.csv and results/ writable: the seed
\* events are built, converted, and written before the metrics are derived
StartCreateEvents ==
  /\ pc = "down"
  /\ price_src # "none"
  /\ ~events_file.exists
  /\ writable
  /\ events_data' = SynthesizeEvents
  /\ events_file' = File(EventsToCsv(SynthesizeEvents))
  /\ synthesized' = SynthesizeEvents
  /\ price_data' = CalculateMetrics(LoadPrices(price_file))
  /\ change_points' = LoadChangePoints(cp_file)
  /\ loaded' = Tables(price_data', events_data', change_points')
  /\ pc' = "serving"
  /\ UNCHANGED <<files, served, result>>

\* process start, no results/events.csv and the write fails: mkdir or to_csv
\* raises OSError inside load_or_create_events; nothing catches it, so
\* load_data stops before calculate_metrics and the process does not serve
StartPersistFails ==
  /\ pc = "down"
  /\ price_src # "none"
  /\ ~events_file.exists
  /\ ~writable
  /\ events_data' = SynthesizeEvents
  /\ price_data' = LoadPrices(price_file)
  /\ pc' = "failed"
  /\ UNCHANGED <<files, events_file, change_points, synthesized, loaded, served,
                 result>>

\* the process ends; its tables are gone, the files stay
Stop ==
  /\ pc \in {"serving", "failed"}
  /\ pc' = "down"
  /\ price_data' = <<>>
  /\ events_data' = <<>>
  /\ change_points' = None
  /\ loaded' = NotLoaded
  /\ served' = "none"
  /\ result' = NoResult
  /\ UNCHANGED <<files, events_file, synthesized>>

\* request arguments
PriceDateArgs == {None, [y |-> 2014, m |-> 5, d |-> 20], [y |-> 2014, m |-> 6, d |-> 10]}
EventDateArgs == {None, [y |-> 2001, m |-> 9, d |-> 11], [y |-> 2016, m |-> 11, d |-> 30]}
EventTypeArgs == {None, Text("all"), Text("Policy"), Text("Geopolitical"), Text("Weather")}
LimitArgs == (0..MaxLimit) \cup {DefaultLimit}
EventIdArgs == {IntToText(i) : i \in 1..12} \cup {IntToText(9999), <<"a", "b", "c">>}

\* get_event_impact with days_from_event assigned on self.price_data itself
PriceDataColumnInPlace(op, call, prices) ==
  IF op = "impact" /\ call.status = "ok" /\ call.value # None
  THEN [i \in 1..Len(prices) |->
          [date |-> prices[i].date,
           price |-> prices[i].price,
           daily_return |-> prices[i].daily_return,
           log_return |-> prices[i].log_return,
           rolling_mean_30d |-> prices[i].rolling_mean_30d,
           rolling_volatility_30d |-> prices[i].rolling_volatility_30d,
           days_from_event |-> prices[i].date.ts - call.value.event.date.ts]]
  ELSE prices

\* api.price_data once a query method has returned or raised: get_price_data
\* filters and samples df = self.price_data.copy(), get_summary_stats only
\* reads the columns, and get_event_impact assigns days_from_event on
\* event_data = self.price_data[mask].copy(); no method rebinds the attribute
PriceDataAfter(op, call, prices) == prices

\* api.events_data once a query method has returned or raised: get_events
\* filters df = self.events_data.copy(), get_event_impact selects rows into
\* a new frame
EventsDataAfter(op, call, events) == events

\* api.change_points once a query method has returned or raised:
\* get_change_points hands the payload to jsonify, which only reads it
ChangePointsAfter(op, call, payload) == payload

\* the server answers one request at a time
Answer(op, args, call, http) ==
  /\ pc = "serving"
  /\ result.op = "none"
  /\ result' = [op |-> op, args |-> args, call |-> call, http |-> http]
  /\ price_data' = PriceDataAfter(op, call, price_data)
  /\ events_data' = EventsDataAfter(op, call, events_data)
  /\ change_points' = ChangePointsAfter(op, call, change_points)
  /\ UNCHANGED <<files, events_file, pc, synthesized, loaded, served>>

\* GET /api/prices
PricesRequest ==
  /\ pc = "serving"
  /\ \E start_date \in PriceDateArgs, end_date \in PriceDateArgs, limit \in LimitArgs :
       LET call == GetPriceData(price_data, start_date, end_date, limit)
       IN Answer("prices", <<start_date, end_date, limit>>, call, PlainRoute(call))

\* GET /api/events
EventsRequest ==
  /\ pc = "serving"
  /\ \E event_type \in EventTypeArgs, start_date \in EventDateArgs,
        end_date \in EventDateArgs :
       LET call == GetEvents(events_data, event_type, start_date, end_date)
       IN Answer("events", <<event_type, start_date, end_date>>, call, PlainRoute(call))

\* GET /api/change-points
ChangePointsRequest ==
  /\ pc = "serving"
  /\ LET call == GetChangePoints(change_points)
     IN Answer("change_points", <<>>, call, PlainRoute(call))

\* GET /api/stats
StatsRequest ==
  /\ pc = "serving"
  /\ LET call == GetSummaryStats(price_data)
     IN Answer("stats", <<>>, call, PlainRoute(call))

\* GET /api/event-impact/<event_id>
EventImpactRequest ==
  /\ pc = "serving"
  /\ \E event_id \in EventIdArgs :
       LET call == GetEventImpact(price_data, events_data, event_id)
       IN Answer("impact", <<event_id>>, call, ImpactRoute(call))

\* the response leaves the server
Deliver ==
  /\ result.op # "none"
  /\ result' = NoResult
  /\ served' = IF result.http = 200 THEN "ok" ELSE "failed"
  /\ UNCHANGED <<files, events_file, pc, price_data, events_data,
                 change_points, synthesized, loaded>>

Next ==
  \/ StartNoPrices
  \/ StartReadEvents
  \/ StartCreateEvents
  \/ StartPersistFails
  \/ Stop
  \/ PricesRequest
  \/ EventsRequest
  \/ ChangePointsRequest
  \/ StatsRequest
  \/ EventImpactRequest
  \/ Deliver

Spec == Init /\ [][Next]_vars

\* ========================================================== properties

\* text order of two 'YYYY-MM-DD' dates
DateTextLess(a, b) ==
  \/ a.y < b.y
  \/ a.y = b.y /\ a.m < b.m
  \/ a.y = b.y /\ a.m = b.m /\ a.d < b.d

FilePrices == [i \in 1..Len(price_file) |-> price_file[i].price]

PositivePrices == \A i \in 1..Len(price_file) : price_file[i].price > 0

UniqueDates ==
  \A i, j \in 1..Len(price_file) : i # j => price_file[i].date # price_file[j].date

AscendingDates ==
  \A i \in 1..(Len(price_file) - 1) :
    DateTextLess(price_file[i].date, price_file[i + 1].date)

\* the file row with the earliest date
EarliestFileDates ==
  {price_file[i].date : i \in {k \in 1..Len(price_file) :
     \A j \in 1..Len(price_file) : ~DateTextLess(price_file[j].date, price_file[k].date)}}

\* C1: for a price file with unique dates and positive prices, the table
\* calculate_metrics leaves when the load pass ends has N-1 rows for N >= 2 input rows, every input
\* row but the chronologically first, and no row for N <= 1.
C1_DropsOnlyFirstRow ==
  (pc = "serving" /\ result.op = "none" /\ PositivePrices /\ UniqueDates) =>
    LET n == Len(price_file)
    IN /\ Len(price_data) = IF n >= 2 THEN n - 1 ELSE 0
       /\ {<<FormatDate(price_data[i].date), price_data[i].price>> : i \in 1..Len(price_data)}
            = {<<price_file[i].date, price_file[i].price>> :
                 i \in {k \in 1..n : price_file[k].date \notin EarliestFileDates}}

C1_Witness ==
  /\ pc = "serving" /\ PositivePrices /\ UniqueDates
  /\ Len(price_file) >= 3
  /\ price_file[1].date \notin EarliestFileDates
  /\ Len(price_data) = Len(price_file) - 1

\* C2 as stated: with at least 30 input rows of positive prices, both rolling
\* columns are undefined on the first 29 derived rows and defined from the
\* 30th on.
C2_AsStated ==
  (pc = "serving" /\ result.op = "none" /\ PositivePrices /\ Len(price_file) >= 30) =>
    \A i \in 1..Len(price_data) :
      /\ (price_data[i].rolling_mean_30d = NaN) <=> (i <= 29)
      /\ (price_data[i].rolling_volatility_30d = NaN) <=> (i <= 29)

\* C2 amended: with at least 30 input rows of positive prices,
\* rolling_volatility_30d is undefined on the first 29 derived rows and
\* defined from the 30th on, while rolling_mean_30d is undefined on the
\* first 28 derived rows and defined from the 29th on.
C2_RollingDefinedness ==
  (pc = "serving" /\ result.op = "none" /\ PositivePrices /\ Len(price_file) >= 30) =>
    \A i \in 1..Len(price_data) :
      /\ (price_data[i].rolling_mean_30d = NaN) <=> (i <= 28)
      /\ (price_data[i].rolling_volatility_30d = NaN) <=> (i <= 29)

C2_Witness ==
  /\ pc = "serving" /\ PositivePrices
  /\ Len(price_data) >= 30
  /\ price_data[28].rolling_mean_30d = NaN
  /\ price_data[29].rolling_mean_30d # NaN
  /\ price_data[29].rolling_volatility_30d = NaN
  /\ price_data[30].rolling_volatility_30d # NaN

\* C3 as stated: a service loaded with the prices 10, 20, 30 on increasing
\* dates reports min 10, max 30, mean 20, median 20.
C3_AsStated ==
  (result.op = "stats" /\ AscendingDates /\ FilePrices = <<10, 20, 30>>) =>
    /\ result.call.status = "ok"
    /\ result.call.value.price_stats.min = Frac(10, 1)
    /\ result.call.value.price_stats.max = Frac(30, 1)
    /\ result.call.value.price_stats.mean = Frac(20, 1)
    /\ result.call.value.price_stats.median = Frac(20, 1)

\* the k-th smallest of values, by counting
OrderStatistic(values, k) ==
  CHOOSE v \in {values[i] : i \in 1..Len(values)} :
    /\ Cardinality({i \in 1..Len(values) : values[i] < v}) < k
    /\ Cardinality({i \in 1..Len(values) : values[i] <= v}) >= k

\* whether the fraction q is the median of values: the middle value, or the
\* midpoint of the two middle values
IsMedianOf(q, values) ==
  LET n == Len(values)
  IN IF n % 2 = 1
     THEN q.num = q.den * OrderStatistic(values, (n + 1) \div 2)
     ELSE 2 * q.num = q.den * (OrderStatistic(values, n \div 2)
                                + OrderStatistic(values, n \div 2 + 1))

\* C3 amended: get_summary_stats reports the min, max, mean and median of the
\* prices of the derived table, which for a file of positive prices on
\* increasing dates is the loaded series without its first row; it raises when
\* that table is empty.  For 10, 20, 30 it reports min 20, max 30, mean 25,
\* median 25.
C3_StatsOfDerivedTable ==
  (result.op = "stats" /\ AscendingDates /\ PositivePrices) =>
    IF Len(price_file) <= 1 THEN result.call.status = "raise"
    ELSE
      LET kept == Tail(FilePrices)
          st == result.call.value.price_stats
      IN /\ result.call.status = "ok"
         /\ st.min.den = 1 /\ st.max.den = 1
         /\ \E i \in 1..Len(kept) : kept[i] = st.min.num
         /\ \E i \in 1..Len(kept) : kept[i] = st.max.num
         /\ \A i \in 1..Len(kept) : st.min.num <= kept[i] /\ kept[i] <= st.max.num
         /\ st.mean.num * Len(kept) = SumSeq(kept) * st.mean.den
         /\ IsMedianOf(st.median, kept)
         /\ FilePrices = <<10, 20, 30>> =>
              /\ st.min = Frac(20, 1) /\ st.max = Frac(30, 1)
              /\ st.mean = Frac(25, 1) /\ st.median = Frac(25, 1)

C3_Witness ==
  /\ result.op = "stats" /\ AscendingDates
  /\ FilePrices = <<10, 20, 30>>
  /\ result.call.status = "ok"
  /\ result.call.value.price_stats.mean = Frac(25, 1)

\* the day number of a date cell, Timestamp or text
DayOf(v) == IF IsTimestamp(v) THEN v.ts ELSE DaysFromCivil(v.y, v.m, v.d)

SameCall(a, b) == a.status = b.status /\ a.value = b.value

\* C4: once a process has synthesized and persisted the seed events, a later
\* process that reads the file holds an event table equal to the synthesized
\* one, and get_events and get_event_impact answer on it as they would on the
\* synthesized table.
C4_ReloadEqualsSynthesized ==
  (pc = "serving" /\ synthesized # <<>>) =>
    /\ events_data = synthesized
    /\ result.op = "events" =>
         SameCall(result.call,
                  GetEvents(synthesized, result.args[1], result.args[2], result.args[3]))
    /\ result.op = "impact" =>
         SameCall(result.call, GetEventImpact(price_data, synthesized, result.args[1]))

\* the events carrying the id a request names
EventsWithId(event_id) ==
  {i \in 1..Len(events_data) : events_data[i].id = TextToInt(event_id)}

\* whether some price record lies within 30 days of the date of event e
Covered(e) ==
  \E i \in 1..Len(price_data) :
    /\ price_data[i].date.ts >= DayOf(events_data[e].date) - 30
    /\ price_data[i].date.ts <= DayOf(events_data[e].date) + 30

\* C5: for an integer id, get_event_impact answers NotFound (None, 404) and
\* does not raise when no event has the id and when the event with the id has
\* no price record within 30 days of its date; it answers 200 only with a
\* non-empty window.
C5_NotFoundNeverRaises ==
  (result.op = "impact" /\ IsIntText(result.args[1])) =>
    LET ids == EventsWithId(result.args[1])
    IN /\ (ids = {} \/ \A e \in ids : ~Covered(e)) =>
            /\ result.call.status = "ok"
            /\ result.call.value = None
            /\ result.http = 404
       /\ result.http = 200 => Len(result.call.value.data_points) > 0

\* C6: in a result of get_event_impact, price_change_pct is present exactly
\* when price_before and price_after are both present, and then equals
\* (price_after - price_before) / price_before * 100.
C6_ChangePctWhenBothDefined ==
  (result.op = "impact" /\ result.http = 200) =>
    LET v == result.call.value
        b == v.price_before
        a == v.price_after
        pct == v.price_change_pct
    IN IF b # None /\ a # None
       THEN /\ pct # None
            /\ pct = Frac(100 * (a.num * b.den - b.num * a.den), a.den * b.num)
       ELSE pct = None

\* the positions of the price table within 30 days of day e, and among them
\* those dated before and after e
WindowAround(e) ==
  {i \in 1..Len(price_data) :
     price_data[i].date.ts >= e - 30 /\ price_data[i].date.ts <= e + 30}
WindowBefore(e) == {i \in WindowAround(e) : price_data[i].date.ts < e}
WindowAfter(e) == {i \in WindowAround(e) : price_data[i].date.ts > e}

PriceSumOver(I) ==
  SumSeq([i \in 1..Len(price_data) |-> IF i \in I THEN price_data[i].price ELSE 0])

\* whether x is the mean of the prices at the positions I, None for no position
IsMeanOver(x, I) ==
  IF I = {} THEN x = None
  ELSE x # None /\ x.num * Cardinality(I) = x.den * PriceSumOver(I)

\* C7: in a result of get_event_impact, price_before is the mean of the prices
\* of all records of the window dated before the event date and price_after
\* the mean of those dated after it, each absent when there is none; records
\* of the event date count in neither, and the 100-row preview does not limit
\* the means.
C7_MeansOverPartitions ==
  (result.op = "impact" /\ result.http = 200) =>
    LET v == result.call.value
        e == v.event.date.ts
    IN /\ IsMeanOver(v.price_before, WindowBefore(e))
       /\ IsMeanOver(v.price_after, WindowAfter(e))

C7_Witness ==
  /\ result.op = "impact" /\ result.http = 200
  /\ LET v == result.call.value
         e == v.event.date.ts
     IN /\ WindowBefore(e) # {} /\ WindowAfter(e) # {}
        /\ \E i \in WindowAround(e) : price_data[i].date.ts = e
        /\ Cardinality(WindowAround(e)) > PreviewRows
        /\ Len(v.data_points) = PreviewRows
        /\ v.price_before # None /\ v.price_after # None

\* the rows get_price_data filters for a request
FilteredPrices(start_date, end_date) ==
  SelectSeq(price_data,
            LAMBDA r : /\ (start_date = None \/ r.date.ts >= DayOf(start_date))
                       /\ (end_date = None \/ r.date.ts <= DayOf(end_date)))

\* C8: for get_price_data with limit >= 1 and N filtered rows: N <= limit
\* gives the filtered rows unchanged; N > limit gives every (N div limit)-th
\* row from the first, len(range(0, N, N div limit)) rows; the output is not
\* empty when the filtered table is not.
C8_StrideSampling ==
  (result.op = "prices" /\ result.args[3] >= 1) =>
    LET f == FilteredPrices(result.args[1], result.args[2])
        n == Len(f)
        limit == result.args[3]
        out == result.call.value
    IN /\ result.call.status = "ok"
       /\ n <= limit => out = f
       /\ n > limit =>
            LET step == n \div limit
            IN /\ Len(out) = (n + step - 1) \div step
               /\ \A k \in 1..Len(out) : out[k] = f[1 + (k - 1) * step]
       /\ n > 0 => Len(out) > 0

C8_Witness ==
  /\ result.op = "prices" /\ result.args[3] >= 2
  /\ result.args[1] # None
  /\ LET n == Len(FilteredPrices(result.args[1], result.args[2]))
     IN /\ n > 2 * result.args[3]
        /\ n % (n \div result.args[3]) # 0
        /\ n < Len(price_data)
        /\ Len(result.call.value) = (n + (n \div result.args[3]) - 1) \div (n \div result.args[3])

\* C9: get_events returns, in table order, exactly the events of the requested
\* type (every event for no type or "all") whose date lies within the given
\* bounds, both inclusive.
C9_EventsFiltered ==
  result.op = "events" =>
    LET event_type == result.args[1]
        start_date == result.args[2]
        end_date == result.args[3]
    IN /\ result.call.status = "ok"
       /\ result.call.value =
            SelectSeq(events_data,
                      LAMBDA ev :
                        /\ (event_type = None \/ event_type.text = "all"
                              \/ ev.type = event_type.text)
                        /\ (start_date = None \/ DayOf(ev.date) >= DayOf(start_date))
                        /\ (end_date = None \/ DayOf(ev.date) <= DayOf(end_date)))

\* C10: with a price file present, no event file and a failing write, the
\* started process is serving, holds the twelve seed events and the derived
\* price table.
C10_PersistFailureNotFatal ==
  (pc # "down" /\ price_src # "none" /\ ~events_file.exists /\ ~writable) =>
    /\ pc = "serving"
    /\ Len(events_data) = 12
    /\ events_data = SynthesizeEvents
    /\ price_data = CalculateMetrics(LoadPrices(price_file))

\* the answer the method of the request in `result` gives on the tables t
AnswerOn(t) ==
  CASE result.op = "prices" ->
         GetPriceData(t.price_data, result.args[1], result.args[2], result.args[3])
    [] result.op = "events" ->
         GetEvents(t.events_data, result.args[1], result.args[2], result.args[3])
    [] result.op = "change_points" -> GetChangePoints(t.change_points)
    [] result.op = "stats" -> GetSummaryStats(t.price_data)
    [] result.op = "impact" ->
         GetEventImpact(t.price_data, t.events_data, result.args[1])

\* C11: after the load/derive pass, whatever queries have been answered
\* (get_price_data, get_events, get_change_points, get_summary_stats,
\* get_event_impact, with any arguments, returning or raising), the price
\* table, the event table and the change-point payload are the ones the load
\* pass left, and the answer to the request in hand is the answer the same
\* call gives on the tables as loaded.
C11_QueriesLeaveTablesUnchanged ==
  pc = "serving" =>
    /\ price_data = loaded.price_data
    /\ events_data = loaded.events_data
    /\ change_points = loaded.change_points
    /\ result.op # "none" =>
         /\ result.call.status = AnswerOn(loaded).status
         /\ result.call.value = AnswerOn(loaded).value

\* C11 witness: a request that failed has been answered earlier, an event
\* impact (the query that adds a column to its working frame) is now answered
\* with price rows, and the tables are still the loaded, non-empty ones
C11_Witness ==
  /\ pc = "serving"
  /\ served = "failed"
  /\ result.op = "impact" /\ result.http = 200
  /\ Len(result.call.value.data_points) > 0
  /\ Len(price_data) > 0 /\ Len(events_data) > 0
  /\ price_data = loaded.price_data
  /\ events_data = loaded.events_data
  /\ change_points = loaded.change_points

====
